---- MODULE Spec2Model ----
(***************************************************************************)
(* A model of the pixels toolkit's two reviewed layers:                    *)
(*   - Reach._extract_action_labels (src/pixels/behaviours/reach.py),      *)
(*     stepped statement group by statement group;                         *)
(*   - Experiment (src/pixels/experiment.py), one action per batch method. *)
(* Signal samples are fixed-point numbers in half volts (Volts(v) = 2v),   *)
(* so that 0.5 * sync is exact on whole-volt sync levels.  Sample indices  *)
(* are numpy's 0-based indices; TLA+ sequences are 1-based, so sample i    *)
(* of a column c is c[i + 1].                                              *)
(***************************************************************************)
EXTENDS Integers, Sequences, FiniteSets, TLC

VARIABLES
    pc,               \* position inside Reach._extract_action_labels
    recorded,         \* the per-sample table as it was recorded (never changes)
    behavioural_data, \* the table the routine works on (column name -> samples)
    trials,           \* self.metadata["trials"]
    passed,           \* the table as handed to signal.binarise
    cue_leds,         \* the binarised cue channel
    led_onsets, led_offsets,
    action_labels,    \* the n x 2 array, a sequence of rows <<column 0, column 1>>
    raised,           \* the exception that left the routine, or "none"
    returned,         \* the array the routine returned, or NoArray
    sessions,         \* Experiment.sessions
    discovered,       \* what ioutils.get_sessions yields for this experiment
    epc,              \* "new", "ready" or "failed": the Experiment constructor
    last              \* the last batch call: its method, arguments, calls, outcome

reachVars == <<pc, recorded, behavioural_data, trials, passed, cue_leds,
               led_onsets, led_offsets, action_labels, raised, returned>>
expVars == <<sessions, discovered, epc, last>>
vars == <<reachVars, expVars>>

----------------------------------------------------------------------------
(* Bounds of the model.                                                    *)

\* samples per clean recording
TraceLen == 6
\* samples per recording of the corruption domain
CorrLen == 3
\* trials per session
MaxTrials == 2
\* sessions per experiment
MaxSessions == 2

----------------------------------------------------------------------------
(* Helpers on sequences.                                                   *)

Range(s) == {s[i] : i \in DOMAIN s}

SeqMin(s) == CHOOSE m \in Range(s) : \A x \in Range(s) : m <= x

SeqMax(s) == CHOOSE m \in Range(s) : \A x \in Range(s) : m >= x

\* all sequences over S of length exactly n / at most n
SeqsOfLen(S, n) == [1..n -> S]

SeqsUpTo(S, n) == UNION {SeqsOfLen(S, k) : k \in 0..n}

\* the members of a finite set of integers, ascending (what np.where returns)
RECURSIVE Ascending(_)
Ascending(S) ==
    IF S = {} THEN <<>>
    ELSE LET m == CHOOSE x \in S : \A y \in S : x <= y
         IN <<m>> \o Ascending(S \ {m})

----------------------------------------------------------------------------
(* Vocabulary of reach.py.                                                 *)

Volts(v) == 2 * v

LedKey == "/'ReachLEDs'/'0'"
BackKey == "/'Back_Sensor'/'0'"
SyncKey == "/'NpxlSync_Signal'/'0'"

\* class ActionLabels: 1 << k is 2^k
ActionLabels ==
    [miss_left |-> 2^0, miss_right |-> 2^1,
     correct_left |-> 2^2, correct_right |-> 2^3,
     incorrect_left |-> 2^4, incorrect_right |-> 2^5]

led_on == 1
led_off == 2

_side_map == [LEFT |-> "left", RIGHT |-> "right"]

_action_map == [MISSED |-> "miss", CORRECT |-> "correct", INCORRECT |-> "incorrect"]

Spouts == DOMAIN _side_map
Outcomes == DOMAIN _action_map

\* getattr(ActionLabels, f"{action}_{side}")
ActionCode(trial) ==
    ActionLabels[_action_map[trial.outcome] \o "_" \o _side_map[trial.spout]]

NoArray == <<"no array">>

----------------------------------------------------------------------------
(* The numpy and pandas operations the routine uses.                       *)

ColumnMin(col) == SeqMin(col)

\* 0.5 * column, in half volts
HalfOf(col) == [i \in DOMAIN col |-> col[i] \div 2]

\* column + column, sample by sample
Plus(a, b) == [i \in DOMAIN a |-> a[i] + b[i]]

\* signal.binarise on one column: 1 where the sample lies above the middle of
\* the column's range, else 0
BinariseColumn(col) ==
    IF col = <<>> THEN col
    ELSE LET lo == SeqMin(col)
             hi == SeqMax(col)
         IN [i \in DOMAIN col |-> IF 2 * col[i] > lo + hi THEN 1 ELSE 0]

\* signal.binarise on the table: every column, in a new table
binarise(data) == [k \in DOMAIN data |-> BinariseColumn(data[k])]

\* np.zeros((n, 2))
Zeros(n) == [i \in 1..n |-> <<0, 0>>]

\* np.where((cue[:-1] == a) & (cue[1:] == b))[0]: 0-based sample indices
EdgesWhere(cue, a, b) ==
    Ascending({i \in 0..(Len(cue) - 2) : cue[i + 1] = a /\ cue[i + 2] = b})

\* labels[idx, column] = value, idx an index array
SetAt(labels, idx, column, value) ==
    [r \in DOMAIN labels |->
        IF (r - 1) \in Range(idx)
        THEN [labels[r] EXCEPT ![column + 1] = value]
        ELSE labels[r]]

\* numpy broadcasting of two 1-d shapes: the resulting length, or -1 when the
\* operands cannot be broadcast together (ValueError)
BroadcastLen(la, lb) ==
    IF la = lb THEN la
    ELSE IF la = 1 THEN lb
    ELSE IF lb = 1 THEN la
    ELSE -1

\* a - b on 1-d arrays whose shapes broadcast
Minus(a, b) ==
    [i \in 1..BroadcastLen(Len(a), Len(b)) |->
        (IF Len(a) = 1 THEN a[1] ELSE a[i]) - (IF Len(b) = 1 THEN b[1] ELSE b[i])]

\* np.argsort on a short 1-d array: insertion sort of the 0-based indices, an
\* index moving left only past strictly larger values
RECURSIVE InsertIndex(_, _, _)
InsertIndex(a, sorted, i) ==
    IF sorted = <<>> THEN <<i>>
    ELSE LET lastIdx == sorted[Len(sorted)]
         IN IF a[lastIdx + 1] > a[i + 1]
            THEN InsertIndex(a, SubSeq(sorted, 1, Len(sorted) - 1), i) \o <<lastIdx>>
            ELSE sorted \o <<i>>

RECURSIVE ArgsortUpTo(_, _)
ArgsortUpTo(a, n) ==
    IF n = 0 THEN <<>>
    ELSE InsertIndex(a, ArgsortUpTo(a, n - 1), n - 1)

argsort(a) == ArgsortUpTo(a, Len(a))

\* np.array_equal on 1-d arrays: same shape and same elements
array_equal(a, b) == a = b

----------------------------------------------------------------------------
(* Reach._extract_action_labels, statement group by statement group.       *)

\* the correction with the threshold test written <= instead of <
CorrectedLedInclusive(data) ==
    IF ColumnMin(data[LedKey]) <= Volts(-2)
    THEN Plus(data[LedKey], HalfOf(data[SyncKey]))
    ELSE data[LedKey]

\* lines 66-68: the LED column after the sync-interference correction
CorrectedLed(data) ==
    IF ColumnMin(data[LedKey]) < Volts(-2)
    THEN Plus(data[LedKey], HalfOf(data[SyncKey]))
    ELSE data[LedKey]

\* lines 73-77: the cue channel of the binarised table
CueChannel(data) ==
    IF LedKey \in DOMAIN data THEN data[LedKey] ELSE data[BackKey]

\* line 79
LedOnsets(cue) == EdgesWhere(cue, 0, 1)

\* line 80
LedOffsets(cue) == EdgesWhere(cue, 1, 0)

\* lines 81-82
EventLabels(labels, onsets, offsets) ==
    SetAt(SetAt(labels, onsets, 1, led_on), offsets, 1, led_off)

\* the count check catching only a trace with too many onsets
TrialCountExcess(onsets, meta) == Len(onsets) > Len(meta)

\* line 85
TrialCountMismatch(onsets, meta) == Len(onsets) # Len(meta)

\* line 92
CueDurationsJson(meta) == [i \in DOMAIN meta |-> meta[i].cue_duration]

\* lines 93-95
RanksMatch(durations, meta) ==
    array_equal(argsort(durations), argsort(CueDurationsJson(meta)))

\* lines 100-103: the loop over the trials, from trial number i (0-based) on
RECURSIVE LabelFrom(_, _, _, _)
LabelFrom(labels, onsets, meta, i) ==
    IF i >= Len(meta) THEN labels
    ELSE LabelFrom(
            [labels EXCEPT ![onsets[i + 1] + 1][1] = ActionCode(meta[i + 1])],
            onsets, meta, i + 1)

\* the action codes written one sample late, at the first lit sample
TrialLabelsAtRise(labels, onsets, meta) ==
    LabelFrom(labels, [i \in DOMAIN onsets |-> onsets[i] + 1], meta, 0)

TrialLabels(labels, onsets, meta) == LabelFrom(labels, onsets, meta, 0)

Raise(kind) ==
    /\ pc' = "raised"
    /\ raised' = kind

\* lines 66-68
Correct ==
    /\ pc = "call"
    /\ \/ /\ LedKey \notin DOMAIN behavioural_data
          /\ Raise("KeyError")
          /\ UNCHANGED behavioural_data
       \/ /\ LedKey \in DOMAIN behavioural_data
          /\ behavioural_data' =
                [behavioural_data EXCEPT ![LedKey] = CorrectedLed(behavioural_data)]
          /\ pc' = "binarise"
          /\ UNCHANGED raised
    /\ UNCHANGED <<recorded, trials, passed, cue_leds, led_onsets, led_offsets,
                   action_labels, returned, expVars>>

\* lines 70-77
Binarise ==
    /\ pc = "binarise"
    /\ passed' = behavioural_data
    /\ behavioural_data' = binarise(behavioural_data)
    /\ action_labels' = Zeros(Len(behavioural_data[SyncKey]))
    /\ cue_leds' = CueChannel(behavioural_data')
    /\ pc' = "edges"
    /\ UNCHANGED <<recorded, trials, led_onsets, led_offsets, raised, returned,
                   expVars>>

\* lines 79-82
DetectEdges ==
    /\ pc = "edges"
    /\ led_onsets' = LedOnsets(cue_leds)
    /\ led_offsets' = LedOffsets(cue_leds)
    /\ action_labels' = EventLabels(action_labels, led_onsets', led_offsets')
    /\ pc' = "qa_count"
    /\ UNCHANGED <<recorded, behavioural_data, trials, passed, cue_leds, raised,
                   returned, expVars>>

\* lines 84-88
CheckTrialCount ==
    /\ pc = "qa_count"
    /\ \/ /\ TrialCountMismatch(led_onsets, trials)
          /\ Raise("PixelsError")
       \/ /\ ~TrialCountMismatch(led_onsets, trials)
          /\ pc' = "qa_ranks"
          /\ UNCHANGED raised
    /\ UNCHANGED <<recorded, behavioural_data, trials, passed, cue_leds,
                   led_onsets, led_offsets, action_labels, returned, expVars>>

\* lines 90-98
CheckCueRanks ==
    /\ pc = "qa_ranks"
    /\ \/ /\ BroadcastLen(Len(led_offsets), Len(led_onsets)) = -1
          /\ Raise("ValueError")
       \/ /\ BroadcastLen(Len(led_offsets), Len(led_onsets)) # -1
          /\ ~RanksMatch(Minus(led_offsets, led_onsets), trials)
          /\ Raise("PixelsError")
       \/ /\ BroadcastLen(Len(led_offsets), Len(led_onsets)) # -1
          /\ RanksMatch(Minus(led_offsets, led_onsets), trials)
          /\ pc' = "label"
          /\ UNCHANGED raised
    /\ UNCHANGED <<recorded, behavioural_data, trials, passed, cue_leds,
                   led_onsets, led_offsets, action_labels, returned, expVars>>

\* lines 100-116, plot=False
LabelTrials ==
    /\ pc = "label"
    /\ action_labels' = TrialLabels(action_labels, led_onsets, trials)
    /\ returned' = action_labels'
    /\ pc' = "return"
    /\ UNCHANGED <<recorded, behavioural_data, trials, passed, cue_leds,
                   led_onsets, led_offsets, raised, expVars>>

ReachNext ==
    \/ Correct
    \/ Binarise
    \/ DetectEdges
    \/ CheckTrialCount
    \/ CheckCueRanks
    \/ LabelTrials

----------------------------------------------------------------------------
(* The sessions the routine is run on.                                     *)

Trial(s, o, d) == [spout |-> s, outcome |-> o, cue_duration |-> d]

\* the cue durations of the labelled sessions' metadata
CueDurations == {1, 2}

AllTrials == {Trial(s, o, d) : s \in Spouts, o \in Outcomes, d \in CueDurations}

\* trials of one kind with every duration that MaxTrials ranks can need: the
\* QA checks read the trial count and the cue durations only
PlainTrials == {Trial("LEFT", "MISSED", d) : d \in 1..MaxTrials}

\* the sync channel: a square wave between 0 V and 5 V
SyncWave(n) == [i \in 1..n |-> IF i % 2 = 0 THEN Volts(5) ELSE 0]

\* a clean recording: the LED channel at 0 V or 5 V, the sync wave beside it
CleanRecordings ==
    {(LedKey :> led) @@ (SyncKey :> SyncWave(TraceLen)) :
        led \in SeqsOfLen({0, Volts(5)}, TraceLen)}

\* the clean recordings in which the LED is off at the first and last sample
PulseRecordings ==
    {r \in CleanRecordings : r[LedKey][1] = 0 /\ r[LedKey][TraceLen] = 0}

\* a recording from the sessions where the sync channel reached the LED
\* channel: LED samples at -2.5 V, -2 V or 5 V, sync samples at 0 V or 5 V
CorruptedRecordings ==
    {(LedKey :> led) @@ (SyncKey :> sync) :
        led \in SeqsOfLen({-5, Volts(-2), Volts(5)}, CorrLen),
        sync \in SeqsOfLen({0, Volts(5)}, CorrLen)}

\* an early recording: the cue on the Back_Sensor key, no ReachLEDs key
EarlyRecordings ==
    {(BackKey :> led) @@ (SyncKey :> SyncWave(CorrLen)) :
        led \in SeqsOfLen({0, Volts(5)}, CorrLen)}

ReachInputs ==
    (PulseRecordings \X SeqsUpTo(AllTrials, MaxTrials))
        \cup ((CleanRecordings \cup CorruptedRecordings \cup EarlyRecordings)
                \X SeqsUpTo(PlainTrials, MaxTrials))

ReachInit ==
    /\ \E input \in ReachInputs :
        /\ recorded = input[1]
        /\ behavioural_data = input[1]
        /\ trials = input[2]
    /\ pc = "call"
    /\ passed = << >>
    /\ cue_leds = << >>
    /\ led_onsets = << >>
    /\ led_offsets = << >>
    /\ action_labels = << >>
    /\ raised = "none"
    /\ returned = NoArray

ReachIdle ==
    /\ pc = "idle"
    /\ recorded = << >>
    /\ behavioural_data = << >>
    /\ trials = << >>
    /\ passed = << >>
    /\ cue_leds = << >>
    /\ led_onsets = << >>
    /\ led_offsets = << >>
    /\ action_labels = << >>
    /\ raised = "none"
    /\ returned = NoArray

----------------------------------------------------------------------------
(* Experiment: the constructor and the batch methods.  A per-session call  *)
(* is recorded in the batch call's log; the sessions on which the         *)
(* per-session method raises are an input of the call.                     *)

SessionNames == {"m1_s1", "m1_s2", "m2_s1"}

\* behaviour(session['name'], metadata=..., data_dir=...)
Behaviour(session) == [name |-> session.name, data_dir |-> session.data_dir]

\* the sessions inserted at the front of the list instead of appended
BuildSessionsReversed(found) ==
    [i \in DOMAIN found |-> Behaviour(found[Len(found) + 1 - i])]

\* lines 58-67: self.sessions after the loop over ioutils.get_sessions
BuildSessions(found) == [i \in DOMAIN found |-> Behaviour(found[i])]

\* __len__
len == Len(sessions)

\* __getitem__, for 0 <= index < len
getitem(index) == sessions[index + 1]

\* the selections of units a caller can pass for one session
UnitSelections == {<<"u1">>, <<"u2", "u3">>}

\* a call made without a units argument
NoUnits == <<"no units">>

\* units=None, and units=[...]
NoneUnits == [given |-> FALSE, list |-> << >>]

GivenUnits(list) == [given |-> TRUE, list |-> list]

\* what a batch method hands back: None, a list, or a concatenated table
None == [kind |-> "None", items |-> << >>]

ListOf(items) == [kind |-> "list", items |-> items]

TableOf(items) == [kind |-> "table", items |-> items]

SessionError == "SessionError"

\* one per-session invocation: session k (0-based), the method, what it got
Call(k, method, args, units) ==
    [session |-> k, name |-> getitem(k).name, method |-> method, args |-> args,
     units |-> units]

\* what session k's method returns
SessionResult(k, method, args, units) ==
    <<getitem(k).name, method, args, units>>

\* if units: units[i], else no units argument
UnitsFor(units, k) ==
    IF units.given /\ units.list # << >> THEN units.list[k + 1] ELSE NoUnits

\* the position at which a loop over the sessions stops: the first session
\* whose call raises, or len
StopsAt(failing) ==
    IF failing = {} THEN len
    ELSE CHOOSE k \in failing : \A j \in failing : k <= j

\* for i, session in enumerate(self.sessions): session.method(...): the calls
\* made, up to and including the first that raises
LoopCalls(method, args, units, failing) ==
    [i \in 1..(IF StopsAt(failing) < len THEN StopsAt(failing) + 1 ELSE len) |->
        Call(i - 1, method, args, UnitsFor(units, i - 1))]

\* the per-session results a completed loop collected, in loop order
Collected(method, args, units) ==
    [i \in 1..len |-> SessionResult(i - 1, method, args, UnitsFor(units, i - 1))]

\* pd.concat(objs, axis=1, keys=range(len(objs))): key k -> objs[k]; raises
\* ValueError on an empty list
ConcatKeys(objs) == TableOf([k \in 0..(Len(objs) - 1) |-> objs[k + 1]])

Returned(method, args, units, calls, value) ==
    [method |-> method, args |-> args, units |-> units, calls |-> calls,
     outcome |-> "returned", error |-> "none", value |-> value]

Raised(method, args, units, calls, error) ==
    [method |-> method, args |-> args, units |-> units, calls |-> calls,
     outcome |-> "raised", error |-> error, value |-> None]

\* lines 36-67
Construct ==
    /\ epc = "new"
    /\ \E data_dir_exists \in BOOLEAN, meta_dir \in {"None", "exists", "missing"} :
        \/ /\ ~data_dir_exists \/ meta_dir = "missing"
           /\ epc' = "failed"
           /\ last' = Raised("__init__", << >>, NoneUnits, << >>, "PixelsError")
           /\ UNCHANGED sessions
        \/ /\ data_dir_exists /\ meta_dir # "missing"
           /\ sessions' = BuildSessions(discovered)
           /\ epc' = "ready"
           /\ last' = Returned("__init__", << >>, NoneUnits, << >>, None)
    /\ UNCHANGED <<discovered, reachVars>>

\* the loop-and-dispatch methods that return nothing
ForEach(method, args) ==
    /\ epc = "ready"
    /\ \E failing \in SUBSET (0..(len - 1)) :
        last' = IF failing = {}
                THEN Returned(method, args, NoneUnits,
                              LoopCalls(method, args, NoneUnits, failing), None)
                ELSE Raised(method, args, NoneUnits,
                            LoopCalls(method, args, NoneUnits, failing), SessionError)
    /\ UNCHANGED <<sessions, discovered, epc, reachVars>>

\* lines 87-89
set_cache == \E on \in BOOLEAN : ForEach("set_cache", <<on>>)

\* lines 91-98
process_spikes == ForEach("process_spikes", << >>)

\* lines 100-107
sort_spikes == ForEach("sort_spikes", << >>)

\* lines 109-116
assess_noise == ForEach("assess_noise", << >>)

\* lines 118-125
process_lfp == ForEach("process_lfp", << >>)

\* lines 127-134
process_behaviour == ForEach("process_behaviour", << >>)

\* lines 136-143
extract_videos == \E force \in BOOLEAN : ForEach("extract_videos", <<force>>)

\* lines 145-153
process_motion_tracking ==
    \E create_labelled_video \in BOOLEAN :
        ForEach("process_motion_tracking", <<"config", create_labelled_video>>)

\* lines 155-168
draw_motion_index_rois ==
    \E num_rois \in 1..2 : ForEach("draw_motion_index_rois", <<num_rois>>)

\* lines 170-180: every session's ROIs are drawn before the first motion
\* index is processed
process_motion_index ==
    /\ epc = "ready"
    /\ \E num_rois \in 1..2, drawFails, failing \in SUBSET (0..(len - 1)) :
        LET draws == LoopCalls("draw_motion_index_rois", <<num_rois>>, NoneUnits, drawFails)
            procs == LoopCalls("process_motion_index", << >>, NoneUnits, failing)
        IN last' =
            IF drawFails # {}
            THEN Raised("process_motion_index", <<num_rois>>, NoneUnits, draws, SessionError)
            ELSE IF failing # {}
            THEN Raised("process_motion_index", <<num_rois>>, NoneUnits,
                        draws \o procs, SessionError)
            ELSE Returned("process_motion_index", <<num_rois>>, NoneUnits,
                          draws \o procs, None)
    /\ UNCHANGED <<sessions, discovered, epc, reachVars>>

\* the criteria and labels a caller passes on
Arguments == {<<"good">>, <<"deep", "wide">>}

\* a units argument: None, or one selection of units per session
UnitLists == {NoneUnits} \cup {GivenUnits(list) : list \in [1..len -> UnitSelections]}

\* lines 182-192
select_units ==
    /\ epc = "ready"
    /\ \E args \in Arguments, failing \in SUBSET (0..(len - 1)) :
        last' = IF failing = {}
                THEN Returned("select_units", args, NoneUnits,
                              LoopCalls("select_units", args, NoneUnits, failing),
                              ListOf(Collected("select_units", args, NoneUnits)))
                ELSE Raised("select_units", args, NoneUnits,
                            LoopCalls("select_units", args, NoneUnits, failing),
                            SessionError)
    /\ UNCHANGED <<sessions, discovered, epc, reachVars>>

\* lines 194-212
align_trials ==
    /\ epc = "ready"
    /\ \E args \in Arguments, units \in UnitLists, failing \in SUBSET (0..(len - 1)) :
        LET calls == LoopCalls("align_trials", args, units, failing)
            aligned == Collected("align_trials", args, units)
        IN last' =
            IF failing # {}
            THEN Raised("align_trials", args, units, calls, SessionError)
            ELSE IF aligned = << >>
            THEN Raised("align_trials", args, units, calls, "ValueError")
            ELSE Returned("align_trials", args, units, calls, ConcatKeys(aligned))
    /\ UNCHANGED <<sessions, discovered, epc, reachVars>>

\* lines 214-219
get_cluster_info ==
    /\ epc = "ready"
    /\ \E failing \in SUBSET (0..(len - 1)) :
        last' = IF failing = {}
                THEN Returned("get_cluster_info", << >>, NoneUnits,
                              LoopCalls("get_cluster_info", << >>, NoneUnits, failing),
                              ListOf(Collected("get_cluster_info", << >>, NoneUnits)))
                ELSE Raised("get_cluster_info", << >>, NoneUnits,
                            LoopCalls("get_cluster_info", << >>, NoneUnits, failing),
                            SessionError)
    /\ UNCHANGED <<sessions, discovered, epc, reachVars>>

\* enumerate(self.sessons): the attribute does not exist, so the loop header
\* raises AttributeError before any session is reached
Sessons(method, args, units) ==
    /\ epc = "ready"
    /\ last' = Raised(method, args, units, << >>, "AttributeError")
    /\ UNCHANGED <<sessions, discovered, epc, reachVars>>

\* lines 221-238
get_spike_widths ==
    \E units \in UnitLists : Sessons("get_spike_widths", << >>, units)

\* lines 240-257
get_spike_waveforms ==
    \E units \in UnitLists : Sessons("get_spike_waveforms", << >>, units)

\* lines 259-277
get_aligned_spike_rate_CI ==
    \E args \in Arguments, units \in UnitLists :
        Sessons("get_aligned_spike_rate_CI", args, units)

ExpNext ==
    \/ Construct
    \/ set_cache
    \/ process_spikes
    \/ sort_spikes
    \/ assess_noise
    \/ process_lfp
    \/ process_behaviour
    \/ extract_videos
    \/ process_motion_tracking
    \/ draw_motion_index_rois
    \/ process_motion_index
    \/ select_units
    \/ align_trials
    \/ get_cluster_info
    \/ get_spike_widths
    \/ get_spike_waveforms
    \/ get_aligned_spike_rate_CI

\* what ioutils.get_sessions can yield: distinct sessions, in some order
Discoveries ==
    {found \in SeqsUpTo([name : SessionNames, data_dir : {"raw"}], MaxSessions) :
        \A i, j \in DOMAIN found : i # j => found[i].name # found[j].name}

ExpInit ==
    /\ discovered \in Discoveries
    /\ sessions = << >>
    /\ epc = "new"
    /\ last = << >>

ExpIdle ==
    /\ sessions = << >>
    /\ discovered = << >>
    /\ epc = "idle"
    /\ last = << >>

----------------------------------------------------------------------------
(* The two specifications.                                                 *)

Init == ReachInit /\ ExpIdle

Next == ReachNext

\* one run of Reach._extract_action_labels on every session of the domains
Spec == Init /\ [][Next]_vars

ExpStart == ReachIdle /\ ExpInit

\* an Experiment: constructed, then batch calls in any order
ExpSpec == ExpStart /\ [][ExpNext]_vars

----------------------------------------------------------------------------
(* What the properties below speak of, read off the state.                 *)

\* the routine has ended, by return or by an exception
Finished == pc \in {"return", "raised"}

\* the routine has ended on a table that holds the ReachLEDs channel, so the
\* binarised cue channel was cut into edges
Detected == Finished /\ LedKey \in DOMAIN recorded

\* the sample indices before a 0 -> 1 step and before a 1 -> 0 step
Onsets == {i \in 0..(Len(cue_leds) - 2) : cue_leds[i + 1] = 0 /\ cue_leds[i + 2] = 1}
Offsets == {i \in 0..(Len(cue_leds) - 2) : cue_leds[i + 1] = 1 /\ cue_leds[i + 2] = 0}

\* the i-th smallest member of S, i = 1, 2, ...
Nth(S, i) == CHOOSE x \in S : Cardinality({y \in S : y < x}) = i - 1

\* the i-th detected cue duration: i-th offset minus i-th onset
PulseDuration(i) == Nth(Offsets, i) - Nth(Onsets, i)

\* the trace is off at its first and last sample: every rising edge has its
\* own falling edge after it
PulseTrace ==
    /\ cue_leds # << >>
    /\ cue_leds[1] = 0
    /\ cue_leds[Len(cue_leds)] = 0

\* the detected durations and the metadata durations rank the trials alike,
\* equal durations ranked by position
SameRankOrder ==
    /\ Cardinality(Offsets) >= Cardinality(Onsets)
    /\ \A i, j \in 1..Len(trials) :
        i < j => ((PulseDuration(i) <= PulseDuration(j))
                    <=> (trials[i].cue_duration <= trials[j].cue_duration))

\* ActionLabels.<outcome>_<side> of a trial
OutcomeSideCode(trial) ==
    CASE trial.outcome = "MISSED" /\ trial.spout = "LEFT" -> ActionLabels.miss_left
      [] trial.outcome = "MISSED" /\ trial.spout = "RIGHT" -> ActionLabels.miss_right
      [] trial.outcome = "CORRECT" /\ trial.spout = "LEFT" -> ActionLabels.correct_left
      [] trial.outcome = "CORRECT" /\ trial.spout = "RIGHT" -> ActionLabels.correct_right
      [] trial.outcome = "INCORRECT" /\ trial.spout = "LEFT" -> ActionLabels.incorrect_left
      [] trial.outcome = "INCORRECT" /\ trial.spout = "RIGHT" -> ActionLabels.incorrect_right

\* the nonzero entries of column 1 of an array, in sample order
RECURSIVE EventsOf(_)
EventsOf(labels) ==
    IF labels = << >> THEN << >>
    ELSE (IF Head(labels)[2] = 0 THEN << >> ELSE <<Head(labels)[2]>>)
            \o EventsOf(Tail(labels))

----------------------------------------------------------------------------
(* Reach._extract_action_labels.                                           *)

\* C1: on a trace of N pulses (off at both ends) with N trials whose cue
\* durations rank like the pulses, the routine returns one two-column row per
\* sample; column 0 is nonzero exactly at the N onset indices, the i-th of
\* them holding ActionLabels.<outcome>_<side> of trial i; column 1 holds
\* led_on at every onset index, led_off at every offset index, 0 elsewhere.
C1_LabelsAtOnsets ==
    (Detected /\ PulseTrace /\ Cardinality(Onsets) = Len(trials) /\ SameRankOrder)
        => /\ pc = "return"
           /\ Len(returned) = Len(recorded[LedKey])
           /\ \A r \in DOMAIN returned :
                /\ Len(returned[r]) = 2
                /\ returned[r][1] # 0 <=> (r - 1) \in Onsets
                /\ returned[r][2] = IF (r - 1) \in Onsets THEN led_on
                                    ELSE IF (r - 1) \in Offsets THEN led_off
                                    ELSE 0
           /\ Cardinality({r \in DOMAIN returned : returned[r][1] # 0}) = Len(trials)
           /\ \A i \in 1..Len(trials) :
                returned[Nth(Onsets, i) + 1][1] = OutcomeSideCode(trials[i])

\* two pulses of different length, two trials of different kinds, labelled
C1_Witness ==
    /\ pc = "return"
    /\ PulseTrace
    /\ Len(trials) = 2
    /\ PulseDuration(1) > PulseDuration(2)
    /\ OutcomeSideCode(trials[1]) = ActionLabels.incorrect_right
    /\ OutcomeSideCode(trials[2]) = ActionLabels.correct_left
    /\ returned[Nth(Onsets, 2) + 1] = <<ActionLabels.correct_left, led_on>>

\* C2: whenever the number of detected onsets differs from the number of
\* trials, the routine raises PixelsError and returns no array, and it never
\* gets past the count check.
C2_CountMismatchRaises ==
    /\ (Detected /\ Cardinality(Onsets) # Len(trials))
        => (pc = "raised" /\ raised = "PixelsError" /\ returned = NoArray)
    /\ pc \in {"qa_ranks", "label", "return"} => Cardinality(Onsets) = Len(trials)

\* one onset in the trace, no trial in the metadata
C2_Witness ==
    /\ pc = "raised"
    /\ raised = "PixelsError"
    /\ Cardinality(Onsets) = 1
    /\ trials = << >>

\* onsets detected where the metadata has more trials than the trace has onsets
C2_WitnessFewerOnsets ==
    /\ pc = "raised"
    /\ raised = "PixelsError"
    /\ Onsets = {}
    /\ Len(trials) = 2

\* C3: when the onset count equals the trial count, the routine succeeds if
\* and only if the rank order of the detected cue durations (i-th offset minus
\* i-th onset) matches that of the metadata cue durations, and raises
\* PixelsError on a mismatch.
C3_RankCheckDecides ==
    (Detected /\ Cardinality(Onsets) = Len(trials))
        => /\ pc = "return" <=> SameRankOrder
           /\ ~SameRankOrder => raised = "PixelsError"

\* C4: the LED channel handed to binarisation is original + 0.5 x sync, sample
\* by sample, exactly when the original LED minimum is below -2 V, and the
\* original otherwise; the sync channel is handed on as recorded.
C4_CorrectionBelowMinusTwo ==
    passed # << >>
        => LET led == recorded[LedKey]
               sync == recorded[SyncKey]
               below == \E i \in DOMAIN led : led[i] < Volts(-2)
           IN /\ Len(passed[LedKey]) = Len(led)
              /\ \A i \in DOMAIN led :
                    2 * passed[LedKey][i] = IF below THEN 2 * led[i] + sync[i]
                                            ELSE 2 * led[i]
              /\ passed[SyncKey] = sync

\* a corrupted channel, lifted by half the sync channel before binarisation
C4_Witness ==
    /\ passed # << >>
    /\ ColumnMin(recorded[LedKey]) = -5
    /\ passed[LedKey] # recorded[LedKey]
    /\ ColumnMin(passed[LedKey]) = 0

\* a channel whose minimum is exactly -2 V, handed on as recorded
C4_WitnessAtMinusTwo ==
    /\ passed # << >>
    /\ ColumnMin(recorded[LedKey]) = Volts(-2)
    /\ passed[LedKey] = recorded[LedKey]
    /\ \E i \in DOMAIN recorded[SyncKey] : recorded[SyncKey][i] # 0

\* C5: on a table without the ReachLEDs column but with the Back_Sensor
\* column, the routine takes the Back_Sensor channel as the cue channel and
\* does not fail for the missing ReachLEDs column.
C5_FallsBackToBackSensor ==
    (Finished /\ LedKey \notin DOMAIN recorded /\ BackKey \in DOMAIN recorded)
        => /\ raised # "KeyError"
           /\ cue_leds = BinariseColumn(recorded[BackKey])

\* C9: a failing run on a recorded table ends in PixelsError and in no other
\* error; a trace whose onset count equals the trial count while its offset
\* count differs from its onset count fails, and fails with PixelsError.
C9_OnlyPixelsError ==
    /\ (Detected /\ pc = "raised") => raised = "PixelsError"
    /\ (Detected /\ Cardinality(Onsets) = Len(trials)
            /\ Cardinality(Offsets) # Cardinality(Onsets))
        => (pc = "raised" /\ raised = "PixelsError")

\* C10: in every returned array the events of column 1 alternate in sample
\* order, led_on first and led_off last, so that the i-th offset lies after
\* the i-th onset and before the next onset.
C10_EventsAlternate ==
    pc = "return"
        => LET events == EventsOf(returned)
           IN /\ Len(events) % 2 = 0
              /\ \A k \in DOMAIN events :
                    events[k] = IF k % 2 = 1 THEN led_on ELSE led_off
              /\ \A i \in 1..Len(led_onsets) : led_offsets[i] > led_onsets[i]

----------------------------------------------------------------------------
(* Experiment.                                                             *)

TableMethods ==
    {"align_trials", "get_spike_widths", "get_spike_waveforms",
     "get_aligned_spike_rate_CI"}

\* a batch call has been made on the constructed experiment
BatchCalled == epc = "ready" /\ last.method # "__init__"

\* the per-session calls of the batch method's own per-session method
OwnCalls == SelectSeq(last.calls, LAMBDA c : c.method = last.method)

\* the caller's arguments that are meant for the per-session method:
\* process_motion_index takes num_rois for the ROI drawing that precedes it
OwnArgs == IF last.method = "process_motion_index" THEN << >> ELSE last.args

\* C6: a table-returning batch method returns, for any number of sessions, a
\* table whose outer key k holds the result of the session at position k.
C6_TableKeyedBySessionPosition ==
    (BatchCalled /\ last.method \in TableMethods /\ last.error # SessionError)
        => /\ last.outcome = "returned"
           /\ last.value.kind = "table"
           /\ DOMAIN last.value.items = 0..(len - 1)
           /\ \A k \in 0..(len - 1) :
                last.value.items[k]
                    = SessionResult(k, last.method, last.args, UnitsFor(last.units, k))

\* C7: a batch method invokes its per-session method on the sessions in
\* construction order, once each, with the caller's arguments (and units[i]
\* for session i); a call that raises ends the loop and the error propagates.
C7_EverySessionInOrder ==
    BatchCalled
        => /\ \A i \in DOMAIN OwnCalls :
                OwnCalls[i] = Call(i - 1, last.method, OwnArgs,
                                   UnitsFor(last.units, i - 1))
           /\ Len(OwnCalls) <= len
           /\ last.error # SessionError => Len(OwnCalls) = len
           /\ last.error = SessionError => last.outcome = "raised"

\* C8: once constructed, len(experiment) is the number of discovered sessions
\* and experiment[i] is the behaviour object of the i-th discovered session,
\* before and after every batch call.
C8_SessionsInDiscoveryOrder ==
    epc = "ready"
        => /\ len = Len(discovered)
           /\ \A i \in 0..(len - 1) : getitem(i) = Behaviour(discovered[i + 1])

\* two sessions, after a batch call that reached both
C8_Witness ==
    /\ BatchCalled
    /\ len = 2
    /\ Len(last.calls) = 2
    /\ getitem(1).name = discovered[2].name

====
